---- MODULE Spec2Model ----
(***************************************************************************)
(* Threat Intelligence Monitor: the feed-to-article ingestion pipeline.    *)
(*                                                                         *)
(* The model covers the RateLimiter (utils.py), the ContentExtractor       *)
(* (content.py), the ThreatDatabase (database.py) and the coordinator      *)
(* ThreatIntelligenceMonitor (monitor.py).  Feed documents, article pages  *)
(* and the clock are the environment.                                      *)
(*                                                                         *)
(* Time is an integer clock `now`.  One tick stands for half a second in   *)
(* the rate limiter (random.uniform(0, 0.5) is at most one tick); a day is *)
(* DayTicks ticks, a scale chosen to keep the clock small.                 *)
(***************************************************************************)
EXTENDS Integers, Sequences, FiniteSets, TLC

\* ------------------------------------------------------------------ bounds
MaxTime == 1        \* the clock of the update cycles stops here
MaxClock == 6       \* the clock of the rate limiter harness stops here
MaxRunsSeq == 2     \* update_feeds calls per behaviour, one worker
DayTicks == 1       \* ticks per day in the update cycles
OldDate == 0 - 20   \* a published date outside every recency window
MaxErrors == 1      \* failures recorded in a row for one source, store called directly
MaxOpen == 2        \* connections that ended `with` blocks may leave open
MaxWords == 6       \* tokens in a text handed to _extract_keywords

\* Python's None and a present optional value
None == << >>
Some(x) == << x >>
Get(o) == o[1]

\* ------------------------------------------------------- program constants
\* ThreatIntelligenceMonitor.__init__ default arguments as used by the model
BaseDelay == 2      \* delay = 1.0 s = two ticks
HalfSecond == 1     \* random.uniform(0, 0.5): at most one tick
DaysBack == {1}     \* the days_back arguments of update_feeds
MaxWorkers == 2     \* max_workers
UpdateCalls == 1    \* the update command calls update_feeds once

Url(h, p) == [host |-> h, path |-> p]

\* utils.py DEFAULT_SECURITY_FEEDS
DEFAULT_SECURITY_FEEDS ==
    << [name |-> "Krebs on Security", url |-> Url("krebsonsecurity.com", "/feed/"),
        type |-> "rss", priority |-> 10],
       [name |-> "Schneier on Security", url |-> Url("www.schneier.com", "/feed/atom/"),
        type |-> "atom", priority |-> 9],
       [name |-> "US-CERT Advisories", url |-> Url("www.cisa.gov", "/uscert/ncas/alerts.xml"),
        type |-> "rss", priority |-> 10],
       [name |-> "Microsoft Security Blog", url |-> Url("www.microsoft.com", "/en-us/security/blog/feed/"),
        type |-> "rss", priority |-> 8] >>

\* a supplied configuration (tests/test_monitor.py setUp)
TestFeeds ==
    << [name |-> "Test Feed 2", url |-> Url("example.com", "/feed2.xml"),
        type |-> "atom", priority |-> 5],
       [name |-> "Test Feed 1", url |-> Url("example.com", "/feed1.xml"),
        type |-> "rss", priority |-> 10] >>

\* the values of the constructor's `feeds` argument the model draws from
FeedArgs == {None, Some(TestFeeds)}

\* The hosts of the feed and article URLs of the model
Hosts == {"krebsonsecurity.com", "www.schneier.com", "www.cisa.gov", "www.microsoft.com"}

\* A limiter that keeps one timestamp for every host
Domain_Shared(url) == "krebsonsecurity.com"

\* urlparse(url).netloc
Domain(url) == url.host

Range(s) == {s[i] : i \in DOMAIN s}

RECURSIVE SumOver(_, _)
SumOver(f, S) ==
    IF S = {} THEN 0
    ELSE LET x == CHOOSE y \in S : TRUE IN f[x] + SumOver(f, S \ {x})

\* sorted(feeds, key=priority, reverse=True): a stable sort, equal keys keep
\* their original order.
RECURSIVE InsertByPriority(_, _)
InsertByPriority(sorted, f) ==
    IF sorted = << >> THEN << f >>
    ELSE IF Head(sorted).priority >= f.priority
         THEN << Head(sorted) >> \o InsertByPriority(Tail(sorted), f)
         ELSE << f >> \o sorted

RECURSIVE SortFeeds(_)
SortFeeds(fs) ==
    IF fs = << >> THEN << >>
    ELSE InsertByPriority(SortFeeds(SubSeq(fs, 1, Len(fs) - 1)), fs[Len(fs)])

\* ------------------------------------------------------------- environment
\* Article links that feed entries carry.
U1 == Url("krebsonsecurity.com", "/a1")
U2 == Url("www.schneier.com", "/a2")

\* A feed entry as feedparser yields it: every field may be absent (None).
Entry(title, link, published, updated) ==
    [title |-> title, link |-> link, published_parsed |-> published,
     updated_parsed |-> updated, created_parsed |-> None,
     summary |-> None, description |-> Some("desc"), content |-> None]

EntryRecent == Entry(Some("Test Article"), Some(U1), Some(0 - 1), None)
EntryUndated == Entry(Some("Advisory"), Some(U2), None, None)
EntryOld == Entry(Some("Old news"), Some(U2), None, Some(OldDate))
EntryNoTitle == Entry(None, Some(U2), Some(0 - 1), None)

\* What feedparser.parse can return for a feed URL.  A network failure gives
\* a document without status and without entries.
Feed(status, entries) == [status |-> status, entries |-> entries]
FeedError == Feed(Some(404), << >>)
FeedUnreachable == Feed(None, << >>)

\* The documents each source's server can serve, by source id
FeedDocs(t) ==
    CASE t = 1 -> { FeedError, Feed(Some(200), << EntryRecent, EntryUndated >>) }
      [] t = 2 -> { FeedUnreachable, Feed(Some(200), << EntryRecent, EntryNoTitle >>) }
      [] t = 3 -> { FeedError, Feed(Some(200), << EntryOld, EntryUndated >>) }
      [] OTHER -> { FeedUnreachable, Feed(Some(200), << EntryRecent >>) }

\* Page text as the sequence of its whitespace-separated tokens.
PageText == << "Ransomware", "the", "CVE-2023-12345", "ransomware", "exploit" >>

\* What the article fetch can meet: a page with a content container or a
\* body, a page with neither, or a failure at one of the stages inside the
\* try block of extract_article_content.
PageOutcomes ==
    { [kind |-> "page", text |-> PageText],
      [kind |-> "error", text |-> << "404 Client Error" >>] }

\* ----------------------------------------------------- keyword extraction
stopwords == {"the", "and", "is", "in", "it", "to", "of", "for", "with", "on"}

\* str.lower() on the tokens the model uses
Lower(tok) ==
    CASE tok = "Ransomware" -> "ransomware"
      [] tok = "Content" -> "content"
      [] tok = "CVE-2023-12345" -> "cve-2023-12345"
      [] OTHER -> tok

\* re.findall(r'\b(?:CVE|cve)-\d{4}-\d{4,}\b', text), per token
IsSecurityId(tok) == tok \in {"CVE-2023-12345", "cve-2023-12345"}

\* re.findall(r'\b[a-zA-Z][a-zA-Z0-9]{2,}\b', token) on a lower-cased token:
\* an identifier such as cve-2023-12345 yields the word cve only, the digit
\* groups do not start with a letter.
WordsIn(low) ==
    IF low = "cve-2023-12345" THEN << "cve" >>
    ELSE IF Len(low) >= 3 THEN << low >>
    ELSE << >>

RECURSIVE Tokenize(_)
Tokenize(text) ==
    IF text = << >> THEN << >>
    ELSE WordsIn(Lower(Head(text))) \o Tokenize(Tail(text))

\* Counter: [word, count] pairs in first-encounter order
RECURSIVE CounterAdd(_, _, _)
CounterAdd(counter, w, n) ==
    IF counter = << >> THEN << [word |-> w, count |-> n] >>
    ELSE IF Head(counter).word = w
         THEN << [word |-> w, count |-> Head(counter).count + n] >> \o Tail(counter)
         ELSE << Head(counter) >> \o CounterAdd(Tail(counter), w, n)

RECURSIVE CountAll(_, _, _)
CountAll(counter, ws, n) ==
    IF ws = << >> THEN counter
    ELSE CountAll(CounterAdd(counter, Head(ws), n), Tail(ws), n)

\* Counter.most_common: descending count, ties in insertion order
RECURSIVE InsertByCount(_, _)
\* A ranking that puts the later of two equal counts first
InsertByCount_TiesLast(sorted, e) ==
    IF sorted = << >> THEN << e >>
    ELSE IF Head(sorted).count > e.count
         THEN << Head(sorted) >> \o InsertByCount(Tail(sorted), e)
         ELSE << e >> \o sorted

InsertByCount(sorted, e) ==
    IF sorted = << >> THEN << e >>
    ELSE IF Head(sorted).count >= e.count
         THEN << Head(sorted) >> \o InsertByCount(Tail(sorted), e)
         ELSE << e >> \o sorted

RECURSIVE MostCommon(_)
MostCommon(counter) ==
    IF counter = << >> THEN << >>
    ELSE InsertByCount(MostCommon(SubSeq(counter, 1, Len(counter) - 1)),
                       counter[Len(counter)])

_extract_keywords(text, max_keywords) ==
    LET security_ids == SelectSeq(text, IsSecurityId)
        words == Tokenize(text)
        filtered_words == SelectSeq(words, LAMBDA w : w \notin stopwords)
        word_counts == CountAll(CountAll(<< >>, filtered_words, 1), security_ids, 5)
        ranked == MostCommon(word_counts)
        n == IF Len(ranked) < max_keywords THEN Len(ranked) ELSE max_keywords
    IN  [i \in 1..n |-> ranked[i].word]

\* ",".join(keywords): the stored keyword string, as its pieces
RECURSIVE JoinComma(_)
JoinComma(kws) ==
    IF kws = << >> THEN << >>
    ELSE IF Len(kws) = 1 THEN kws
    ELSE << Head(kws), "," >> \o JoinComma(Tail(kws))

\* -------------------------------------------------------- ContentExtractor
\* extract_published_date: published, then updated, then created, else now
extract_published_date(entry, clock) ==
    IF entry.published_parsed # None THEN Get(entry.published_parsed)
    ELSE IF entry.updated_parsed # None THEN Get(entry.updated_parsed)
    ELSE IF entry.created_parsed # None THEN Get(entry.created_parsed)
    ELSE clock

\* extract_entry_summary: summary, description, first content block, literal
extract_entry_summary(entry) ==
    IF entry.summary # None THEN Get(entry.summary)
    ELSE IF entry.description # None THEN Get(entry.description)
    ELSE IF entry.content # None THEN Get(entry.content)
    ELSE "No summary available"

\* extract_article_content, given what the fetch met.  The body is a token
\* sequence; the failure placeholders are the literal prefix followed by the
\* error message.
FailedPrefix == << "Content", "extraction", "failed" >>

\* An extractor without the except branch: the request's exception leaves it
extract_article_content_Unguarded(outcome) ==
    IF outcome.kind = "error"
    THEN [raised |-> TRUE, full_content |-> << >>, keywords |-> << >>]
    ELSE LET full_text == IF outcome.kind = "page" THEN outcome.text
                          ELSE << "Content", "extraction", "failed" >>
         IN  [raised |-> FALSE,
              full_content |-> full_text,
              keywords |-> _extract_keywords(full_text, 10)]

extract_article_content(outcome) ==
    IF outcome.kind = "error"
    THEN [raised |-> FALSE,
          full_content |-> FailedPrefix \o << ":" >> \o outcome.text,
          keywords |-> << >>]
    ELSE LET full_text == IF outcome.kind = "page" THEN outcome.text
                          ELSE FailedPrefix
         IN  [raised |-> FALSE,
              full_content |-> full_text,
              keywords |-> _extract_keywords(full_text, 10)]

\* A parse_feed that checks the status only
ParseFeedRaises_StatusOnly(doc) == doc.status # None /\ Get(doc.status) >= 400

\* parse_feed's checks on the fetched document: TRUE when it raises ValueError
ParseFeedRaises(doc) ==
    \/ (doc.status # None /\ Get(doc.status) >= 400)
    \/ doc.entries = << >>

\* ------------------------------------------------------------------- state
VARIABLES
    feedsArg,       \* the `feeds` argument the monitor was constructed with
    feeds,          \* ThreatIntelligenceMonitor.feeds
    delay,          \* ThreatIntelligenceMonitor.delay = RateLimiter.base_delay
    max_workers,    \* ThreatIntelligenceMonitor.max_workers
    sources,        \* table sources: row id -> row
    articles,       \* table articles: row id -> row
    last_request,   \* RateLimiter.last_request: domain -> timestamp
    now,            \* the clock
    run,            \* the update_feeds call in progress, and its statistics
    task,           \* the _process_feed task of each source of the run
    web,            \* environment: the feed document each source served last
    reply,          \* the last call made on the store directly, and its result
    db              \* DatabaseManager: the `with` block in progress, and what ended blocks left open

vars == << feedsArg, feeds, delay, max_workers, sources, articles, last_request,
           now, run, task, web, reply, db >>

\* ----------------------------------------------------------- ThreatDatabase
\* A plain INSERT into a sources table whose name column is not UNIQUE
InsertOrIgnoreSource_Plain(rows, feed) ==
    Append(rows, [name |-> feed.name, url |-> feed.url, type |-> feed.type,
                  last_updated |-> None, error_count |-> 0])

\* INSERT OR IGNORE INTO sources (name, url, type): name is UNIQUE
InsertOrIgnoreSource(rows, feed) ==
    IF \E i \in DOMAIN rows : rows[i].name = feed.name THEN rows
    ELSE Append(rows, [name |-> feed.name, url |-> feed.url, type |-> feed.type,
                       last_updated |-> None, error_count |-> 0])

RECURSIVE InsertAll(_, _)
InsertAll(rows, fs) ==
    IF fs = << >> THEN rows
    ELSE InsertAll(InsertOrIgnoreSource(rows, Head(fs)), Tail(fs))

\* _init_database: the tables exist afterwards and every feed of
\* DEFAULT_SECURITY_FEEDS is a source
_init_database(rows) == InsertAll(rows, DEFAULT_SECURITY_FEEDS)

\* A status update that stamps last_updated on failure as well
update_source_status_Stamped(rows, source_id, success, clock) ==
    [i \in DOMAIN rows |->
        IF i # source_id THEN rows[i]
        ELSE IF success
             THEN [rows[i] EXCEPT !.last_updated = Some(clock), !.error_count = 0]
             ELSE [rows[i] EXCEPT !.last_updated = Some(clock), !.error_count = @ + 1]]

\* update_source_status
update_source_status(rows, source_id, success, clock) ==
    [i \in DOMAIN rows |->
        IF i # source_id THEN rows[i]
        ELSE IF success
             THEN [rows[i] EXCEPT !.last_updated = Some(clock), !.error_count = 0]
             ELSE [rows[i] EXCEPT !.error_count = @ + 1]]

\* SELECT id FROM articles WHERE url = ?  (add_article line 170)
UrlStored(rows, url) == \E i \in DOMAIN rows : rows[i].url = url

\* A table without the UNIQUE constraint on url
UniqueViolation_Unconstrained(rows, url) == FALSE

\* A connection that never turns foreign_keys on
ForeignKeyViolation_Off(srcs, source_id) == FALSE

\* The constraints of the articles table an INSERT can violate: url UNIQUE,
\* and source_id REFERENCES sources (id) with foreign_keys = ON
UniqueViolation(rows, url) == \E i \in DOMAIN rows : rows[i].url = url
ForeignKeyViolation(srcs, source_id) == source_id \notin DOMAIN srcs

ArticleRow(source_id, title, url, published_date, clock, summary, full_content, keywords) ==
    [source_id |-> source_id, title |-> title, url |-> url,
     published_date |-> published_date, retrieved_date |-> clock,
     summary |-> summary, full_content |-> full_content,
     keywords |-> JoinComma(keywords)]

\* ------------------------------------------------------------ construction
NoFeed == Feed(None, << >>)
NoEntry == [title |-> "", link |-> U1, published_date |-> 0, summary |-> "",
            page |-> "none", full_content |-> << >>, keywords |-> << >>]
IdleTask ==
    [pc |-> "none", url |-> U1, feed |-> NoFeed, idx |-> 0, cutoff |-> 0,
     new_articles |-> 0, inserted |-> 0, entry |-> NoEntry,
     added |-> None, add_error |-> FALSE, storage_fault |-> FALSE, wake |-> 0,
     after |-> "none", collected |-> FALSE]
ZeroStats == [feeds_processed |-> 0, new_articles |-> 0, errors |-> 0]
NoRun == [days_back |-> 0, start |-> 0]
NoReply == [op |-> "none"]
NoConnection == [pc |-> "none", op |-> "none", conn |-> "none", txn |-> FALSE,
                 exc |-> FALSE, ended_by |-> "none", left_open |-> 0]

\* The state after ThreatIntelligenceMonitor(feeds, db_path, delay, max_workers)
\* on a new database file; `calls` bounds the update_feeds calls that follow.
Constructed(feedsV, delayV, workersV, calls) ==
    /\ feedsArg = feedsV
    /\ feeds = SortFeeds(IF feedsV = None \/ Get(feedsV) = << >>
                         THEN DEFAULT_SECURITY_FEEDS ELSE Get(feedsV))
    /\ delay = delayV
    /\ max_workers = workersV
    /\ sources = _init_database(<< >>)
    /\ articles = << >>
    /\ last_request = [h \in Hosts |-> None]
    /\ now = 0
    /\ run = [pc |-> "idle", count |-> 0, limit |-> calls, days_back |-> 0,
              start |-> 0, stats |-> ZeroStats, rows0 |-> 0, changed |-> FALSE,
              prev |-> NoRun]
    /\ task = [t \in DOMAIN sources |-> IdleTask]
    /\ web = [t \in DOMAIN sources |-> NoFeed]
    /\ reply = NoReply
    /\ db = NoConnection

\* The update command: a monitor is constructed and update_feeds is called
\* once; two pool workers, no request delay.
Init == \E f \in FeedArgs : Constructed(f, 0, MaxWorkers, UpdateCalls)

\* ------------------------------------------------------------- RateLimiter
\* wait_if_needed, first half: read the clock and the domain's timestamp,
\* draw the delay, decide how long to sleep (lines 101-112).
WaitIfNeededCheck(t) ==
    /\ task[t].pc = "rl_check"
    /\ LET domain == Domain(task[t].url)
           current_time == now
       IN  \E j \in 0..(delay \div 2) :
             LET delay_j == delay + j IN
             IF /\ last_request[domain] # None
                /\ current_time - Get(last_request[domain]) < delay_j
             THEN \E k \in 0..HalfSecond :
                    LET elapsed == current_time - Get(last_request[domain])
                        wait_time == delay_j - elapsed + k
                    IN  task' = [task EXCEPT ![t].pc = "rl_sleep",
                                             ![t].wake = current_time + wait_time]
             ELSE task' = [task EXCEPT ![t].pc = "rl_sleep",
                                       ![t].wake = current_time]
    /\ UNCHANGED << db, reply, feedsArg, feeds, delay, max_workers, sources, articles,
                    last_request, now, run, web >>

\* wait_if_needed, second half: the sleep is over, store the timestamp
\* (line 115) and return to the caller.
WaitIfNeededUpdate(t) ==
    /\ task[t].pc = "rl_sleep"
    /\ now >= task[t].wake
    /\ last_request' = [last_request EXCEPT ![Domain(task[t].url)] = Some(now)]
    /\ task' = [task EXCEPT ![t].pc = task[t].after, ![t].wake = 0]
    /\ UNCHANGED << db, reply, feedsArg, feeds, delay, max_workers, sources, articles,
                    now, run, web >>

\* ------------------------------------------------ ThreatIntelligenceMonitor
Running(t) == task[t].pc \notin {"none", "pending", "returned", "raised"}

\* update_feeds up to the end of the submit loop: statistics zeroed, the
\* sources read, one task submitted per source.
UpdateFeedsCall(days_back) ==
    /\ run.pc = "idle"
    /\ run.count < run.limit
    /\ run' = [run EXCEPT !.pc = "running", !.count = @ + 1,
                          !.days_back = days_back, !.start = now,
                          !.stats = ZeroStats, !.rows0 = Len(articles),
                          !.changed = FALSE,
                          !.prev = [days_back |-> run.days_back, start |-> run.start]]
    /\ task' = [t \in DOMAIN sources |->
                   [IdleTask EXCEPT !.pc = "pending", !.url = sources[t].url]]
    /\ UNCHANGED << db, reply, feedsArg, feeds, delay, max_workers, sources, articles,
                    last_request, now, web >>

\* The task's future is done: its outcome and its result remain.
Finished(t, outcome) ==
    [IdleTask EXCEPT !.pc = outcome, !.cutoff = task[t].cutoff,
                     !.new_articles = task[t].new_articles,
                     !.inserted = task[t].inserted,
                     !.storage_fault = task[t].storage_fault]

\* A pool that starts a thread for every queued task
WorkerStart_Unbounded(t) ==
    /\ task[t].pc = "pending"
    /\ \A u \in DOMAIN task : u < t => task[u].pc # "pending"
    /\ task' = [task EXCEPT ![t].pc = "rl_check", ![t].after = "parse"]
    /\ UNCHANGED << db, reply, feedsArg, feeds, delay, max_workers, sources, articles,
                    last_request, now, run, web >>

\* A pool worker takes the oldest queued task; at most max_workers run.
WorkerStart(t) ==
    /\ task[t].pc = "pending"
    /\ \A u \in DOMAIN task : u < t => task[u].pc # "pending"
    /\ Cardinality({u \in DOMAIN task : Running(u)}) < max_workers
    /\ task' = [task EXCEPT ![t].pc = "rl_check", ![t].after = "parse"]
    /\ UNCHANGED << db, reply, feedsArg, feeds, delay, max_workers, sources, articles,
                    last_request, now, run, web >>

\* _process_feed lines 133-143 and the handler 181-186: the feed is fetched
\* and checked; on success the cutoff is computed and the source is marked
\* succeeded, on ValueError the source is marked failed and the task raises.
ParseFeed(t) ==
    /\ task[t].pc = "parse"
    /\ \E doc \in FeedDocs(t) :
         /\ web' = [web EXCEPT ![t] = doc]
         /\ run' = [run EXCEPT !.changed = @ \/ (run.count > 1 /\ doc # web[t])]
         /\ IF ParseFeedRaises(doc)
            THEN /\ sources' = update_source_status(sources, t, FALSE, now)
                 /\ task' = [task EXCEPT ![t] = Finished(t, "raised")]
            ELSE /\ sources' = update_source_status(sources, t, TRUE, now)
                 /\ task' = [task EXCEPT ![t].pc = "entry", ![t].feed = doc,
                                         ![t].idx = 1,
                                         ![t].cutoff = now - run.days_back * DayTicks]
    /\ UNCHANGED << db, reply, feedsArg, feeds, delay, max_workers, articles, last_request, now >>

\* A loop without the date filter
TooOld_Never(pub_date, cutoff_date) == FALSE

\* if pub_date < cutoff_date: continue  (line 151)
TooOld(pub_date, cutoff_date) == pub_date < cutoff_date

\* One turn of the loop over feed.entries up to the call of
\* extract_article_content (lines 146-162), or the return after the loop.
ProcessEntry(t) ==
    /\ task[t].pc = "entry"
    /\ IF task[t].idx > Len(task[t].feed.entries)
       THEN /\ task' = [task EXCEPT ![t] = Finished(t, "returned")]
            /\ UNCHANGED sources
       ELSE LET entry == task[t].feed.entries[task[t].idx]
                pub_date == extract_published_date(entry, now)
            IN  IF TooOld(pub_date, task[t].cutoff)
                THEN /\ task' = [task EXCEPT ![t].idx = @ + 1]
                     /\ UNCHANGED sources
                ELSE IF entry.title = None \/ entry.link = None
                THEN \* AttributeError, caught at line 181
                     /\ sources' = update_source_status(sources, t, FALSE, now)
                     /\ task' = [task EXCEPT ![t] = Finished(t, "raised")]
                ELSE /\ task' = [task EXCEPT
                            ![t].pc = "rl_check", ![t].after = "fetch",
                            ![t].url = Get(entry.link),
                            ![t].entry = [title |-> Get(entry.title),
                                          link |-> Get(entry.link),
                                          published_date |-> pub_date,
                                          summary |-> extract_entry_summary(entry),
                                          page |-> "none",
                                          full_content |-> << >>,
                                          keywords |-> << >>]]
                     /\ UNCHANGED sources
    /\ UNCHANGED << db, reply, feedsArg, feeds, delay, max_workers, articles, last_request,
                    now, run, web >>

\* What extract_article_content hands back for each thing the fetch can meet
Extracted == [outcome \in PageOutcomes |-> extract_article_content(outcome)]

\* A loop that drops the entry whose page could not be fetched
FetchArticle_SkipsFailed(t) ==
    /\ task[t].pc = "fetch"
    /\ \E outcome \in PageOutcomes :
         LET got == extract_article_content(outcome)
         IN  IF outcome.kind = "error"
             THEN task' = [task EXCEPT ![t].pc = "entry", ![t].idx = @ + 1,
                                       ![t].entry = NoEntry]
             ELSE task' = [task EXCEPT
                         ![t].pc = "add_select",
                         ![t].entry.page = outcome.kind,
                         ![t].entry.full_content = got.full_content,
                         ![t].entry.keywords = got.keywords]
    /\ UNCHANGED << db, reply, feedsArg, feeds, delay, max_workers, sources, articles,
                    last_request, now, run, web >>

\* extract_article_content after the rate limiter (lines 133-166), called at
\* line 162 of _process_feed: the body and the keywords, or the placeholder of
\* the except branch.  An exception leaving it would reach the handler of
\* _process_feed.
FetchArticle(t) ==
    /\ task[t].pc = "fetch"
    /\ \E outcome \in PageOutcomes :
         LET got == Extracted[outcome]
         IN  IF got.raised
             THEN /\ sources' = update_source_status(sources, t, FALSE, now)
                  /\ task' = [task EXCEPT ![t] = Finished(t, "raised")]
             ELSE /\ task' = [task EXCEPT
                         ![t].pc = "add_select",
                         ![t].entry.page = outcome.kind,
                         ![t].entry.full_content = got.full_content,
                         ![t].entry.keywords = got.keywords]
                  /\ UNCHANGED sources
    /\ UNCHANGED << db, reply, feedsArg, feeds, delay, max_workers, articles, last_request,
                    now, run, web >>

\* A loop that counts every offered entry, whatever add_article returned
AfterAdd_CountsOffered(t, added) ==
    [task EXCEPT ![t].pc = "entry", ![t].idx = @ + 1, ![t].entry = NoEntry,
                 ![t].added = Some(added),
                 ![t].new_articles = @ + 1]

\* add_article returned `added`; lines 175-177 of _process_feed
AfterAdd(t, added) ==
    [task EXCEPT ![t].pc = "entry", ![t].idx = @ + 1, ![t].entry = NoEntry,
                 ![t].added = Some(added),
                 ![t].new_articles = IF added THEN @ + 1 ELSE @]

\* add_article logged "Error adding article" (line 195) or not
Logged(tasks, t, error) == [tasks EXCEPT ![t].add_error = error]

\* An add_article that overwrites the stored row of a URL it finds
AddArticleSelect_Replaces(t) ==
    /\ task[t].pc = "add_select"
    /\ LET e == task[t].entry IN
       IF UrlStored(articles, e.link)
       THEN /\ task' = Logged(AfterAdd(t, FALSE), t, FALSE)
            /\ articles' = [i \in DOMAIN articles |->
                              IF articles[i].url = e.link
                              THEN ArticleRow(t, e.title, e.link, e.published_date, now,
                                              e.summary, e.full_content, e.keywords)
                              ELSE articles[i]]
       ELSE /\ task' = [task EXCEPT ![t].pc = "add_insert"]
            /\ UNCHANGED articles
    /\ UNCHANGED << db, reply, feedsArg, feeds, delay, max_workers, sources,
                    last_request, now, run, web >>

\* add_article: the SELECT.  A stored URL returns False.
AddArticleSelect(t) ==
    /\ task[t].pc = "add_select"
    /\ IF UrlStored(articles, task[t].entry.link)
       THEN task' = Logged(AfterAdd(t, FALSE), t, FALSE)
       ELSE task' = [task EXCEPT ![t].pc = "add_insert"]
    /\ UNCHANGED << db, reply, feedsArg, feeds, delay, max_workers, sources, articles,
                    last_request, now, run, web >>

\* add_article: the INSERT and the commit.  A violated constraint raises
\* sqlite3.IntegrityError, which line 194 catches: the call returns False.
AddArticleInsert(t) ==
    /\ task[t].pc = "add_insert"
    /\ LET e == task[t].entry IN
       IF UniqueViolation(articles, e.link) \/ ForeignKeyViolation(sources, t)
       THEN /\ task' = Logged(AfterAdd(t, FALSE), t, TRUE)
            /\ UNCHANGED articles
       ELSE /\ articles' = Append(articles,
                   ArticleRow(t, e.title, e.link, e.published_date, now,
                              e.summary, e.full_content, e.keywords))
            /\ task' = [Logged(AfterAdd(t, TRUE), t, FALSE) EXCEPT ![t].inserted = @ + 1]
    /\ UNCHANGED << db, reply, feedsArg, feeds, delay, max_workers, sources, last_request,
                    now, run, web >>

\* A collection loop without the try/except around future.result(): the
\* task's exception leaves update_feeds.
AsCompleted_Unhandled(t) ==
    /\ run.pc = "running"
    /\ task[t].pc \in {"returned", "raised"}
    /\ ~task[t].collected
    /\ task' = [task EXCEPT ![t].collected = TRUE]
    /\ run' = IF task[t].pc = "returned"
              THEN [run EXCEPT !.stats.feeds_processed = @ + 1,
                               !.stats.new_articles = @ + task[t].new_articles]
              ELSE [run EXCEPT !.pc = "raised"]
    /\ UNCHANGED << db, reply, feedsArg, feeds, delay, max_workers, sources, articles,
                    last_request, now, web >>

\* A collection loop that counts a feed as processed before asking for its
\* result.
AsCompleted_CountsAttempted(t) ==
    /\ run.pc = "running"
    /\ task[t].pc \in {"returned", "raised"}
    /\ ~task[t].collected
    /\ task' = [task EXCEPT ![t].collected = TRUE]
    /\ run' = [run EXCEPT !.stats =
                 IF task[t].pc = "returned"
                 THEN [@ EXCEPT !.feeds_processed = @ + 1,
                                !.new_articles = @ + task[t].new_articles]
                 ELSE [@ EXCEPT !.feeds_processed = @ + 1, !.errors = @ + 1]]
    /\ UNCHANGED << db, reply, feedsArg, feeds, delay, max_workers, sources, articles,
                    last_request, now, web >>

\* One turn of the as_completed loop (lines 96-107): future.result() returns
\* the task's result or re-raises its exception, which is caught.
AsCompleted(t) ==
    /\ run.pc = "running"
    /\ task[t].pc \in {"returned", "raised"}
    /\ ~task[t].collected
    /\ task' = [task EXCEPT ![t].collected = TRUE]
    /\ run' = [run EXCEPT !.stats =
                 IF task[t].pc = "returned"
                 THEN [@ EXCEPT !.feeds_processed = @ + 1,
                                !.new_articles = @ + task[t].new_articles]
                 ELSE [@ EXCEPT !.errors = @ + 1]]
    /\ UNCHANGED << db, reply, feedsArg, feeds, delay, max_workers, sources, articles,
                    last_request, now, web >>

\* An update_feeds that returns without waiting for its tasks
UpdateFeedsReturn_Early ==
    /\ run.pc = "running"
    /\ run' = [run EXCEPT !.pc = "idle"]
    /\ UNCHANGED << db, reply, feedsArg, feeds, delay, max_workers, sources, articles,
                    last_request, now, task, web >>

\* The executor is shut down and update_feeds returns the statistics.
UpdateFeedsReturn ==
    /\ run.pc = "running"
    /\ \A t \in DOMAIN task : task[t].collected
    /\ run' = [run EXCEPT !.pc = "idle"]
    /\ UNCHANGED << db, reply, feedsArg, feeds, delay, max_workers, sources, articles,
                    last_request, now, task, web >>

\* Time passes before an update_feeds call and while a thread sleeps in the
\* rate limiter; the caller of the store has taken its reply by then.
Sleeping(t) == task[t].pc = "rl_sleep" /\ now < task[t].wake

Tick ==
    /\ now < MaxTime
    /\ \/ run.pc = "idle" /\ run.count < run.limit
       \/ \E t \in DOMAIN task : Sleeping(t)
    /\ now' = now + 1
    /\ reply' = NoReply
    /\ UNCHANGED << db, feedsArg, feeds, delay, max_workers, sources, articles,
                    last_request, run, task, web >>

Next ==
    \/ \E d \in DaysBack : UpdateFeedsCall(d)
    \/ \E t \in DOMAIN task : WorkerStart(t)
    \/ \E t \in DOMAIN task : WaitIfNeededCheck(t)
    \/ \E t \in DOMAIN task : WaitIfNeededUpdate(t)
    \/ \E t \in DOMAIN task : ParseFeed(t)
    \/ \E t \in DOMAIN task : ProcessEntry(t)
    \/ \E t \in DOMAIN task : FetchArticle(t)
    \/ \E t \in DOMAIN task : AddArticleSelect(t)
    \/ \E t \in DOMAIN task : AddArticleInsert(t)
    \/ \E t \in DOMAIN task : AsCompleted(t)
    \/ UpdateFeedsReturn
    \/ Tick

Spec == Init /\ [][Next]_vars

\* The update command with threads that keep running.  Every wait and every
\* call of the model returns, and the pool hands each queued task to a free
\* worker.  The clock stands still: with no request delay no thread sleeps.
InitLive == Constructed(None, 0, MaxWorkers, UpdateCalls)

NextLive ==
    \/ \E d \in DaysBack : UpdateFeedsCall(d)
    \/ \E t \in DOMAIN task : WorkerStart(t)
    \/ \E t \in DOMAIN task : WaitIfNeededCheck(t)
    \/ \E t \in DOMAIN task : WaitIfNeededUpdate(t)
    \/ \E t \in DOMAIN task : ParseFeed(t)
    \/ \E t \in DOMAIN task : ProcessEntry(t)
    \/ \E t \in DOMAIN task : FetchArticle(t)
    \/ \E t \in DOMAIN task : AddArticleSelect(t)
    \/ \E t \in DOMAIN task : AddArticleInsert(t)
    \/ \E t \in DOMAIN task : AsCompleted(t)
    \/ UpdateFeedsReturn

\* The main thread and the pool's workers keep running: a step that stays
\* possible is taken
Fairness ==
    /\ WF_vars(\E d \in DaysBack : UpdateFeedsCall(d))
    /\ WF_vars(\E t \in DOMAIN task : WorkerStart(t))
    /\ WF_vars(\E t \in DOMAIN task : WaitIfNeededCheck(t))
    /\ WF_vars(\E t \in DOMAIN task : WaitIfNeededUpdate(t))
    /\ WF_vars(\E t \in DOMAIN task : ParseFeed(t))
    /\ WF_vars(\E t \in DOMAIN task : ProcessEntry(t))
    /\ WF_vars(\E t \in DOMAIN task : FetchArticle(t))
    /\ WF_vars(\E t \in DOMAIN task : AddArticleSelect(t))
    /\ WF_vars(\E t \in DOMAIN task : AddArticleInsert(t))
    /\ WF_vars(\E t \in DOMAIN task : AsCompleted(t))
    /\ WF_vars(UpdateFeedsReturn)

SpecLive == InitLive /\ [][NextLive]_vars /\ Fairness

\* Successive update cycles of a monitor with a single pool worker
InitSeq == Constructed(None, 0, 1, MaxRunsSeq)

SpecSeq == InitSeq /\ [][Next]_vars

\* ------------------------------------------------------------ storage faults
\* sqlite3.OperationalError (disk, lock, connection) inside add_article:
\* DatabaseManager.__exit__ rolls back and lets it propagate (lines 41-48),
\* the except branch of add_article catches it and returns False (194-196).
AddArticleFault(t) ==
    /\ task[t].pc \in {"add_select", "add_insert"}
    /\ task' = [Logged(AfterAdd(t, FALSE), t, TRUE) EXCEPT ![t].storage_fault = TRUE]
    /\ UNCHANGED << db, reply, feedsArg, feeds, delay, max_workers, sources, articles,
                    last_request, now, run, web >>

\* sqlite3.OperationalError inside update_source_status(source_id, True) at
\* line 143 of _process_feed: nothing catches it in the store, the handler of
\* _process_feed (181-186) marks the source failed, which may fail as well,
\* and the task raises.
StatusUpdateFault(t) ==
    /\ task[t].pc = "parse"
    /\ \E doc \in FeedDocs(t) :
         /\ ~ParseFeedRaises(doc)
         /\ web' = [web EXCEPT ![t] = doc]
         /\ run' = [run EXCEPT !.changed = @ \/ (run.count > 1 /\ doc # web[t])]
    /\ \E handled \in BOOLEAN :
         sources' = IF handled THEN update_source_status(sources, t, FALSE, now)
                    ELSE sources
    /\ task' = [task EXCEPT ![t] = [Finished(t, "raised") EXCEPT !.storage_fault = TRUE]]
    /\ UNCHANGED << db, reply, feedsArg, feeds, delay, max_workers, articles,
                    last_request, now >>

\* One update cycle of a monitor with a single pool worker on a store whose
\* operations can fail
InitFault == Constructed(None, 0, 1, UpdateCalls)

NextFault ==
    \/ Next
    \/ \E t \in DOMAIN task : AddArticleFault(t)
    \/ \E t \in DOMAIN task : StatusUpdateFault(t)

SpecFault == InitFault /\ [][NextFault]_vars

\* ---------------------------------------------- the rate limiter on its own
\* The pool's worker threads call wait_if_needed directly, as parse_feed and
\* extract_article_content do, for URLs on two hosts; time passes freely.
RateUrls == { U1, Url("krebsonsecurity.com", "/feed/"), U2 }

WaitIfNeededCall(t, url) ==
    /\ t <= max_workers
    /\ task[t].pc = "none"
    /\ task' = [task EXCEPT ![t].pc = "rl_check", ![t].url = url, ![t].after = "none"]
    /\ UNCHANGED << db, reply, feedsArg, feeds, delay, max_workers, sources, articles,
                    last_request, now, run, web >>

Elapse ==
    /\ now < MaxClock
    /\ now' = now + 1
    /\ UNCHANGED << db, reply, feedsArg, feeds, delay, max_workers, sources, articles,
                    last_request, run, task, web >>

InitRate == Constructed(None, BaseDelay, MaxWorkers, 0)

NextRate ==
    \/ \E t \in DOMAIN task, url \in RateUrls : WaitIfNeededCall(t, url)
    \/ \E t \in DOMAIN task : WaitIfNeededCheck(t)
    \/ \E t \in DOMAIN task : WaitIfNeededUpdate(t)
    \/ Elapse

SpecRate == InitRate /\ [][NextRate]_vars

\* ------------------------------------------------------ queries on the store
\* Text is a sequence of symbols.  A symbol is one character, or a whole word
\* where nothing looks inside the word (the keywords of a keyword string).
AsciiUpper == << "A", "B", "C", "D", "E", "F", "G", "H", "I", "J", "K", "L", "M",
                 "N", "O", "P", "Q", "R", "S", "T", "U", "V", "W", "X", "Y", "Z" >>
AsciiLower == << "a", "b", "c", "d", "e", "f", "g", "h", "i", "j", "k", "l", "m",
                 "n", "o", "p", "q", "r", "s", "t", "u", "v", "w", "x", "y", "z" >>

\* SQLite's LIKE folds the case of ASCII letters only
NoCase(c) ==
    IF \E i \in DOMAIN AsciiUpper : AsciiUpper[i] = c
    THEN AsciiLower[CHOOSE i \in DOMAIN AsciiUpper : AsciiUpper[i] = c]
    ELSE c

\* text LIKE pattern: % stands for any run of symbols, _ for any one symbol
RECURSIVE Like(_, _)
Like(pattern, text) ==
    IF pattern = << >> THEN text = << >>
    ELSE IF Head(pattern) = "%"
         THEN \/ Like(Tail(pattern), text)
              \/ text # << >> /\ Like(pattern, Tail(text))
    ELSE /\ text # << >>
         /\ Head(pattern) = "_" \/ NoCase(Head(pattern)) = NoCase(Head(text))
         /\ Like(Tail(pattern), Tail(text))

\* str.strip()
RECURSIVE LStrip(_)
LStrip(s) == IF s # << >> /\ Head(s) = " " THEN LStrip(Tail(s)) ELSE s

RECURSIVE RStrip(_)
RStrip(s) ==
    IF s # << >> /\ s[Len(s)] = " " THEN RStrip(SubSeq(s, 1, Len(s) - 1)) ELSE s

strip(s) == RStrip(LStrip(s))

\* datetime.isoformat(): the whole seconds, followed by the fraction only when
\* the datetime has one.  A second is TicksPerSecond ticks.
TicksPerSecond == HalfSecond + HalfSecond

isoformat(dt) ==
    IF dt % TicksPerSecond = 0 THEN << dt \div TicksPerSecond >>
    ELSE << dt \div TicksPerSecond, dt % TicksPerSecond >>

\* a > b on TEXT values: the first differing place decides, and a proper
\* prefix is the smaller one
RECURSIVE TextGreater(_, _)
TextGreater(a, b) ==
    IF a = << >> THEN FALSE
    ELSE IF b = << >> THEN TRUE
    ELSE IF Head(a) # Head(b) THEN Head(a) > Head(b)
    ELSE TextGreater(Tail(a), Tail(b))

\* (datetime.now() - timedelta(days=days)).isoformat()
CutoffDate(days, clock) == isoformat(clock - days * DayTicks)

\* A window that lets the cutoff instant itself in
AfterCutoff_Inclusive(published_date, cutoff_date) ==
    ~TextGreater(cutoff_date, isoformat(published_date))

\* WHERE published_date > ?  on the stored isoformat text
AfterCutoff(published_date, cutoff_date) ==
    TextGreater(isoformat(published_date), cutoff_date)

\* The WHERE clause of search_articles on one article row; an absent or empty
\* query adds no condition
Matches(row, query) ==
    \/ query = None
    \/ Get(query) = << >>
    \/ LET search_term == << "%" >> \o strip(Get(query)) \o << "%" >>
       IN  \/ Like(search_term, row.title)
           \/ Like(search_term, row.summary)
           \/ Like(search_term, row.full_content)
           \/ Like(search_term, row.keywords)

\* One row of the result: the selected columns of the joined tables
SearchRow(rows, srcs, i) ==
    [id |-> i, title |-> rows[i].title, url |-> rows[i].url,
     published_date |-> isoformat(rows[i].published_date),
     summary |-> rows[i].summary, keywords |-> rows[i].keywords,
     source_name |-> srcs[rows[i].source_id].name]

\* ORDER BY a.published_date DESC LIMIT ?: SQLite leaves the order of rows
\* with equal dates open, and a negative LIMIT is no limit
OrderedLimited(rows, ids, limit) ==
    LET n == IF limit < 0 \/ limit > Cardinality(ids) THEN Cardinality(ids) ELSE limit
        date(i) == isoformat(rows[i].published_date)
    IN  { s \in [1..n -> ids] :
            /\ \A j, k \in 1..n : j < k => s[j] # s[k] /\ ~TextGreater(date(s[k]), date(s[j]))
            /\ \A i \in ids \ Range(s) : \A j \in 1..n : ~TextGreater(date(i), date(s[j])) }

\* search_articles: every result the query can produce
search_articles(rows, srcs, query, days, limit, clock) ==
    LET cutoff_date == CutoffDate(days, clock)
        ids == { i \in DOMAIN rows :
                   /\ rows[i].source_id \in DOMAIN srcs
                   /\ Matches(rows[i], query)
                   /\ AfterCutoff(rows[i].published_date, cutoff_date) }
    IN  { [j \in DOMAIN s |-> SearchRow(rows, srcs, s[j])] :
            s \in OrderedLimited(rows, ids, limit) }

\* str.split(",")
RECURSIVE Split(_)
Split(s) ==
    IF \A k \in DOMAIN s : s[k] # "," THEN << s >>
    ELSE LET k == CHOOSE k \in DOMAIN s :
                     s[k] = "," /\ \A j \in 1..(k - 1) : s[j] # ","
         IN  << SubSeq(s, 1, k - 1) >> \o Split(SubSeq(s, k + 1, Len(s)))

\* all_keywords: the keywords of the fetched rows, in the order fetched
RECURSIVE AllKeywords(_)
AllKeywords(keyword_rows) ==
    IF keyword_rows = << >> THEN << >>
    ELSE (IF Head(keyword_rows) # << >> THEN Split(Head(keyword_rows)) ELSE << >>)
         \o AllKeywords(Tail(keyword_rows))

\* sorted(...) without reverse=True
SortedKeywords_Ascending(keyword_counts) ==
    LET s == MostCommon(keyword_counts)
    IN  [j \in DOMAIN s |-> s[Len(s) + 1 - j]]

\* sorted(keyword_counts.items(), key=lambda x: x[1], reverse=True)
SortedKeywords(keyword_counts) == MostCommon(keyword_counts)

\* get_article_keywords: every list the call can return; the SELECT has no
\* ORDER BY, so the rows arrive in an order SQLite chooses
get_article_keywords(rows, days, clock) ==
    LET cutoff_date == CutoffDate(days, clock)
        ids == { i \in DOMAIN rows : AfterCutoff(rows[i].published_date, cutoff_date) }
        orders == { s \in [1..Cardinality(ids) -> ids] :
                      \A j, k \in DOMAIN s : j # k => s[j] # s[k] }
    IN  { LET sorted_keywords ==
                  SortedKeywords(CountAll(<< >>,
                      AllKeywords([j \in DOMAIN s |-> rows[s[j]].keywords]), 1))
          IN  [j \in DOMAIN sorted_keywords |->
                   << sorted_keywords[j].word, sorted_keywords[j].count >>] :
          s \in orders }

\* get_trending_keywords: get_article_keywords(days)[:limit]
get_trending_keywords(rows, days, limit, clock) ==
    { SubSeq(ks, 1, IF limit < Len(ks) THEN limit ELSE Len(ks)) :
        ks \in get_article_keywords(rows, days, clock) }

\* ------------------------------------------------- the store called directly
\* The search and trends commands, and the tests of the store, call the
\* ThreatDatabase without an update cycle in progress.  `reply` keeps the call
\* and what it returned.
Article(source_id, path, title, summary, full_content, keywords) ==
    [source_id |-> source_id, url |-> Url("example.com", path), title |-> title,
     summary |-> summary, full_content |-> full_content, keywords |-> keywords]

Article1 == Article(1, "/article1", << "T", "e", "s", "t" >>, << "n", "e", "w", "s" >>,
                    << "b", "o", "d", "y" >>, << "security", "exploit" >>)
Article2 == Article(2, "/article2", << "A", "l", "e", "r", "t" >>,
                    << "a", " ", "T", "E", "S", "T" >>,
                    << "b", "o", "d", "y" >>, << "security", "malware" >>)
Article3 == Article(1, "/article3", << "N", "o", "t", "e" >>, << >>, << >>, << >>)
\* an article of a source id that no source row has
UnknownSource == Len(DEFAULT_SECURITY_FEEDS) + 1
ArticleOrphan == [Article1 EXCEPT !.source_id = UnknownSource,
                                  !.url = Url("example.com", "/article4")]
\* another article at the URL of Article1
ArticleAgain == [Article2 EXCEPT !.url = Article1.url]

SearchArticles == { Article1, Article2, Article3 }
StoreArticles == { Article1, ArticleOrphan, ArticleAgain }

Queries == { None, Some(<< "t", "e", "s", "t" >>), Some(<< "security" >>),
             Some(<< "_" >>), Some(<< " " >>) }
SearchDays == {1, 7}
SearchLimits == {1, 20}
TrendDays == {1, 3}
TrendLimits == {1, 10}
StatusIds == {1, 2, UnknownSource}

\* db.add_article(...), by the one thread there is
StoreAddArticle(c, published_date) ==
    /\ run.pc = "idle"
    /\ LET result == /\ ~UrlStored(articles, c.url)
                     /\ ~UniqueViolation(articles, c.url)
                     /\ ~ForeignKeyViolation(sources, c.source_id)
       IN  /\ articles' = IF result
                          THEN Append(articles,
                                      ArticleRow(c.source_id, c.title, c.url,
                                                 published_date, now, c.summary,
                                                 c.full_content, c.keywords))
                          ELSE articles
           /\ reply' = [op |-> "add_article", source_id |-> c.source_id,
                        url |-> c.url, result |-> result]
    /\ UNCHANGED << db, feedsArg, feeds, delay, max_workers, sources, last_request,
                    now, run, task, web >>

\* monitor.search_articles(query, days, limit)
StoreSearch(query, days, limit) ==
    /\ run.pc = "idle"
    /\ \E result \in search_articles(articles, sources, query, days, limit, now) :
          reply' = [op |-> "search_articles", query |-> query, days |-> days,
                    limit |-> limit, result |-> result]
    /\ UNCHANGED << db, feedsArg, feeds, delay, max_workers, sources, articles,
                    last_request, now, run, task, web >>

\* monitor.get_trending_keywords(days, limit)
StoreKeywords(days, limit) ==
    /\ run.pc = "idle"
    /\ \E result \in get_trending_keywords(articles, days, limit, now) :
          reply' = [op |-> "get_trending_keywords", days |-> days,
                    limit |-> limit, result |-> result]
    /\ UNCHANGED << db, feedsArg, feeds, delay, max_workers, sources, articles,
                    last_request, now, run, task, web >>

\* db.update_source_status(source_id, success)
StoreUpdateStatus(source_id, success) ==
    /\ run.pc = "idle"
    /\ IF success \/ source_id \notin DOMAIN sources THEN TRUE
       ELSE sources[source_id].error_count < MaxErrors
    /\ sources' = update_source_status(sources, source_id, success, now)
    /\ reply' = [op |-> "update_source_status", source_id |-> source_id,
                 success |-> success]
    /\ UNCHANGED << db, feedsArg, feeds, delay, max_workers, articles, last_request,
                    now, run, task, web >>

\* ThreatDatabase(db_path) constructed once more on the same file
StoreInit ==
    /\ run.pc = "idle"
    /\ sources' = _init_database(sources)
    /\ reply' = [op |-> "init"]
    /\ UNCHANGED << db, feedsArg, feeds, delay, max_workers, articles, last_request,
                    now, run, task, web >>

\* Articles go into the store and are searched as time passes
InitSearch == Constructed(None, 0, MaxWorkers, UpdateCalls)

NextSearch ==
    \/ \E c \in SearchArticles, age \in {0, 1} : StoreAddArticle(c, now - age * DayTicks)
    \/ \E q \in Queries, d \in SearchDays, l \in SearchLimits : StoreSearch(q, d, l)
    \/ \E d \in TrendDays, l \in TrendLimits : StoreKeywords(d, l)
    \/ Tick

SpecSearch == InitSearch /\ [][NextSearch]_vars

\* The maintenance calls on a store: status updates, repeated initialization,
\* and add_article calls that a constraint rejects
NextStore ==
    \/ \E id \in StatusIds, success \in BOOLEAN : StoreUpdateStatus(id, success)
    \/ StoreInit
    \/ \E c \in StoreArticles : StoreAddArticle(c, now)
    \/ Tick

SpecStore == InitSearch /\ [][NextStore]_vars

\* ------------------------------------------------ a monitor given one feed
\* ThreatIntelligenceMonitor(feeds=[feed], ...) on a new database file, then
\* one update_feeds call
OneFeed == [name |-> "Test Feed", url |-> Url("example.com", "/feed.xml"),
            type |-> "rss", priority |-> 10]

InitOne == Constructed(Some(<< OneFeed >>), 0, MaxWorkers, UpdateCalls)

SpecOne == InitOne /\ [][Next]_vars

\* The text of a title or summary of the update cycle as its symbols: the
\* characters where a search looks inside, else the text as one symbol
Symbols(text) ==
    IF text = "Test Article"
    THEN << "T", "e", "s", "t", " ", "A", "r", "t", "i", "c", "l", "e" >>
    ELSE << text >>

\* The article rows as search_articles reads them
Spelled(rows) ==
    [i \in DOMAIN rows |-> [rows[i] EXCEPT !.title = Symbols(@),
                                           !.summary = Symbols(@)]]

\* ---------------------------------------------------------- DatabaseManager
\* One `with DatabaseManager(self.db_path) as cursor:` block of a store
\* operation.  Each statement of __enter__ and __exit__ can raise
\* sqlite3.Error, as the body can.
StoreOps == { "_init_database", "get_sources", "update_source_status",
              "add_article", "search_articles", "get_article_keywords" }
WriteOps == { "_init_database", "update_source_status", "add_article" }

\* DatabaseManager(db_path) and the first statement of __enter__ (line 31):
\* sqlite3.connect returns a connection or raises
DbConnect(op, ok) ==
    /\ db.pc \in {"none", "ended"}
    /\ db.left_open < MaxOpen
    /\ db' = IF ok
             THEN [NoConnection EXCEPT !.pc = "enter", !.op = op, !.conn = "open",
                                       !.left_open = db.left_open]
             ELSE [NoConnection EXCEPT !.pc = "ended", !.op = op, !.exc = TRUE,
                                       !.left_open = db.left_open]
    /\ UNCHANGED << reply, feedsArg, feeds, delay, max_workers, sources, articles,
                    last_request, now, run, task, web >>

\* The rest of __enter__ (lines 33-39).  When a PRAGMA raises, the with
\* statement never calls __exit__.
DbEnter(ok) ==
    /\ db.pc = "enter"
    /\ db' = IF ok THEN [db EXCEPT !.pc = "body"]
             ELSE [db EXCEPT !.pc = "ended", !.exc = TRUE, !.left_open = @ + 1]
    /\ UNCHANGED << reply, feedsArg, feeds, delay, max_workers, sources, articles,
                    last_request, now, run, task, web >>

\* The body of the block: it may write, which begins a transaction, and it
\* may raise.
DbBody(wrote, raised) ==
    /\ db.pc = "body"
    /\ wrote => db.op \in WriteOps
    /\ db' = [db EXCEPT !.pc = "exit", !.txn = wrote, !.exc = raised]
    /\ UNCHANGED << reply, feedsArg, feeds, delay, max_workers, sources, articles,
                    last_request, now, run, task, web >>

\* __exit__ (lines 41-48): commit or rollback, then close.  When the commit
\* or the rollback raises, close() is not reached.
DbExit(ok) ==
    /\ db.pc = "exit"
    /\ db' = IF ok
             THEN [db EXCEPT !.pc = "ended", !.txn = FALSE, !.conn = "closed",
                             !.ended_by = IF db.exc THEN "rollback" ELSE "commit"]
             ELSE [db EXCEPT !.pc = "ended", !.exc = TRUE, !.left_open = @ + 1]
    /\ UNCHANGED << reply, feedsArg, feeds, delay, max_workers, sources, articles,
                    last_request, now, run, task, web >>

InitConn == Constructed(None, 0, MaxWorkers, UpdateCalls)

NextConn ==
    \/ \E op \in StoreOps, ok \in BOOLEAN : DbConnect(op, ok)
    \/ \E ok \in BOOLEAN : DbEnter(ok)
    \/ \E wrote, raised \in BOOLEAN : DbBody(wrote, raised)
    \/ \E ok \in BOOLEAN : DbExit(ok)

SpecConn == InitConn /\ [][NextConn]_vars

\* ------------------------------------------------------ command entry point
\* main() of cli.py: no command prints the help and returns 0 (lines 64-66);
\* otherwise the monitor is constructed and the command run inside one try
\* whose last statement is `return 0` (118) and whose `except Exception`
\* handler returns 1 (120-122).
Commands == {"update", "search", "trends"}

main(command, raised) ==
    IF command = "none" THEN 0
    ELSE IF raised # "none" THEN 1
    ELSE 0

\* An entry point that reports failed sources through its exit status
MainUpdate_ErrorsFail ==
    /\ run.pc \in {"idle", "raised"}
    /\ run.count > 0
    /\ reply' = [op |-> "main", command |-> "update",
                 raised |-> IF run.pc = "raised" THEN "command" ELSE "none",
                 stats |-> run.stats,
                 exit |-> IF run.pc = "raised" \/ run.stats.errors > 0
                          THEN 1 ELSE 0]
    /\ UNCHANGED << db, feedsArg, feeds, delay, max_workers, sources, articles,
                    last_request, now, run, task, web >>

\* The update command: update_feeds has come back, with its statistics or
\* with an exception, and main prints the statistics and returns (77-83).
MainUpdate ==
    /\ run.pc \in {"idle", "raised"}
    /\ run.count > 0
    /\ reply' = [op |-> "main", command |-> "update",
                 raised |-> IF run.pc = "raised" THEN "command" ELSE "none",
                 stats |-> run.stats,
                 exit |-> main("update", IF run.pc = "raised" THEN "command"
                                         ELSE "none")]
    /\ UNCHANGED << db, feedsArg, feeds, delay, max_workers, sources, articles,
                    last_request, now, run, task, web >>

\* The search and trends commands (85-116) complete, or the store raises
\* inside them: search_articles and get_article_keywords have no handler.
MainQuery(command, raised) ==
    /\ run.pc = "idle"
    /\ command \in {"search", "trends"}
    /\ reply' = [op |-> "main", command |-> command,
                 raised |-> IF raised THEN "command" ELSE "none",
                 stats |-> ZeroStats,
                 exit |-> main(command, IF raised THEN "command" ELSE "none")]
    /\ UNCHANGED << db, feedsArg, feeds, delay, max_workers, sources, articles,
                    last_request, now, run, task, web >>

\* ThreatIntelligenceMonitor(...) raises: _init_database re-raises the
\* store's error and no command runs (68-75).
MainConstructFails(command) ==
    /\ run.pc = "idle"
    /\ reply' = [op |-> "main", command |-> command, raised |-> "construct",
                 stats |-> ZeroStats, exit |-> main(command, "construct")]
    /\ UNCHANGED << db, feedsArg, feeds, delay, max_workers, sources, articles,
                    last_request, now, run, task, web >>

\* main() called without a command
MainNoCommand ==
    /\ run.pc = "idle"
    /\ reply' = [op |-> "main", command |-> "none", raised |-> "none",
                 stats |-> ZeroStats, exit |-> main("none", "none")]
    /\ UNCHANGED << db, feedsArg, feeds, delay, max_workers, sources, articles,
                    last_request, now, run, task, web >>

InitCli == Constructed(None, 0, 1, UpdateCalls)

NextCli ==
    \/ Next
    \/ MainUpdate
    \/ \E c \in Commands, raised \in BOOLEAN : MainQuery(c, raised)
    \/ \E c \in Commands : MainConstructFails(c)
    \/ MainNoCommand

SpecCli == InitCli /\ [][NextCli]_vars

\* ------------------------------------------------------- error bookkeeping
\* The error_count column of the sources table, read between two update
\* cycles (get_sources does not select it); the reader notes how many
\* cycles had been run.
ReadErrorCounts ==
    /\ run.pc = "idle"
    /\ reply' = [op |-> "read_error_counts", runs |-> run.count,
                 error_count |-> [t \in DOMAIN sources |->
                                     sources[t].error_count]]
    /\ UNCHANGED << db, feedsArg, feeds, delay, max_workers, sources, articles,
                    last_request, now, run, task, web >>

NextCount ==
    \/ Next
    \/ ReadErrorCounts

\* Successive update cycles with the error counts read in between
SpecCount == InitSeq /\ [][NextCount]_vars

\* ------------------------------------------------------- keyword harness
\* _extract_keywords applied to every text of up to MaxWords tokens over the
\* tokens of the page, for several values of max_keywords (10 by default).
Vocabulary == Range(PageText)
Texts == UNION { [1..n -> Vocabulary] : n \in 0..MaxWords }
KeywordLimits == {0, 1, 2, 10}

KeywordsCall(text, max_keywords) ==
    /\ reply = NoReply
    /\ reply' = [op |-> "call", text |-> text, max_keywords |-> max_keywords]
    /\ UNCHANGED << db, feedsArg, feeds, delay, max_workers, sources, articles,
                    last_request, now, run, task, web >>

KeywordsReturn ==
    /\ reply.op = "call"
    /\ reply' = [op |-> "_extract_keywords", text |-> reply.text,
                 max_keywords |-> reply.max_keywords,
                 keywords |-> _extract_keywords(reply.text, reply.max_keywords)]
    /\ UNCHANGED << db, feedsArg, feeds, delay, max_workers, sources, articles,
                    last_request, now, run, task, web >>

InitKeywords == Constructed(None, 0, MaxWorkers, UpdateCalls)

NextKeywords ==
    \/ /\ reply = NoReply
       /\ \E text \in Texts, m \in KeywordLimits : KeywordsCall(text, m)
    \/ KeywordsReturn

SpecKeywords == InitKeywords /\ [][NextKeywords]_vars

\* ------------------------------------------------------ extraction harness
\* Everything the article request can meet: the page, a response without a
\* content container and without a body (an empty or plain-text document, for
\* which _find_main_content returns None), and the errors of the try block.
FetchOutcomes ==
    PageOutcomes \cup { [kind |-> "empty", text |-> << >>],
                        [kind |-> "error", text |-> << "Read timed out" >>] }

ArticlePaths == {"/article1", "/article2", "/article3"}

\* Lines 162-173 of _process_feed for one entry: the link is fetched and
\* what extract_article_content returned goes to add_article.
ExtractThenAdd(outcome, path) ==
    LET got == extract_article_content(outcome)
    IN  StoreAddArticle(Article(1, path, Article3.title, Article3.summary,
                                got.full_content, got.keywords), now)

InitExtract == Constructed(None, 0, MaxWorkers, UpdateCalls)

NextExtract ==
    \/ \E outcome \in FetchOutcomes, path \in ArticlePaths :
          ExtractThenAdd(outcome, path)
    \/ \E days \in TrendDays, limit \in TrendLimits : StoreKeywords(days, limit)
    \/ Tick

SpecExtract == InitExtract /\ [][NextExtract]_vars

\* ================================================================ properties
\* The entry passes the date filter of line 151 for a task with this cutoff
InWindow(entry, cutoff) == extract_published_date(entry, now) >= cutoff

Stored(url) == \E i \in DOMAIN articles : articles[i].url = url

Placeholder(content) ==
    /\ Len(content) > 4
    /\ SubSeq(content, 1, 4) = << "Content", "extraction", "failed", ":" >>

RunComplete == run.pc = "idle" /\ run.count > 0

\* C1: no two stored articles share a URL, and an add_article call for a URL
\* that is already stored returns False without raising and leaves the
\* articles table as it was, whether the SELECT or the UNIQUE constraint
\* finds the duplicate.
C1_UrlUnique ==
    /\ [](\A i, j \in DOMAIN articles :
             articles[i].url = articles[j].url => i = j)
    /\ [][\A t \in DOMAIN task :
            (/\ task[t].pc \in {"add_select", "add_insert"}
             /\ task'[t].pc # task[t].pc
             /\ Stored(task[t].entry.link))
            => /\ articles' = articles
               /\ task'[t].pc = "entry"
               /\ task'[t].added = << FALSE >>
               /\ task'[t].new_articles = task[t].new_articles]_vars

\* Two tasks offered the same URL concurrently: the later INSERT met the
\* constraint and its call returned False.
C1_Witness ==
    \E t \in DOMAIN task :
        /\ task[t].added = << FALSE >>
        /\ task[t].add_error
        /\ Len(articles) > 0

\* C2: an update cycle that follows another with the same feed documents and
\* the same window inserts nothing and reports new_articles = 0.
SameWindow ==
    /\ run.prev.days_back = run.days_back
    /\ \A t \in DOMAIN web : \A i \in DOMAIN web[t].entries :
         LET e == web[t].entries[i] IN
         (extract_published_date(e, run.prev.start)
              >= run.prev.start - run.prev.days_back * DayTicks)
         <=> (extract_published_date(e, run.start)
              >= run.start - run.days_back * DayTicks)

C2_SecondRunAddsNothing ==
    (run.pc = "idle" /\ run.count >= 2 /\ ~run.changed /\ SameWindow)
    => /\ run.stats.new_articles = 0
       /\ Len(articles) = run.rows0

\* The second cycle offered stored URLs again and a feed was processed.
C2_Witness ==
    /\ run.pc = "idle" /\ run.count >= 2 /\ ~run.changed /\ SameWindow
    /\ run.rows0 > 0
    /\ \E t \in DOMAIN task :
          /\ task[t].pc = "returned" /\ task[t].new_articles = 0
          /\ \E i \in DOMAIN web[t].entries :
                /\ InWindow(web[t].entries[i], task[t].cutoff)
                /\ Stored(web[t].entries[i].link[1])

\* C3: a failing feed task never makes update_feeds raise; every task is
\* run to its end and collected, and each task that returned has all the
\* in-window entries of its feed stored.
C3_FailureIsolated ==
    /\ run.pc # "raised"
    /\ RunComplete =>
         \A t \in DOMAIN task :
            /\ task[t].pc \in {"returned", "raised"}
            /\ task[t].collected
            /\ task[t].pc = "returned" =>
                 \A i \in DOMAIN web[t].entries :
                    LET e == web[t].entries[i] IN
                    InWindow(e, task[t].cutoff)
                       => e.link # None /\ Stored(e.link[1])

\* A cycle ended with one task raised and another that stored an article.
C3_Witness ==
    /\ RunComplete
    /\ \E t, u \in DOMAIN task :
          /\ task[t].pc = "raised"
          /\ task[u].pc = "returned" /\ task[u].inserted > 0

\* C4: the statistics are the tally of the collected tasks: feeds_processed
\* counts those that returned, errors those that raised, new_articles sums
\* the returned counts; when the cycle ends the two counts add up to the
\* number of sources.
C4_StatsTally ==
    LET done(outcome) == {t \in DOMAIN task :
                             task[t].collected /\ task[t].pc = outcome}
        count == [t \in DOMAIN task |-> task[t].new_articles]
    IN  run.count > 0 =>
          /\ run.stats.feeds_processed = Cardinality(done("returned"))
          /\ run.stats.errors = Cardinality(done("raised"))
          /\ run.stats.new_articles = SumOver(count, done("returned"))
          /\ RunComplete =>
                run.stats.feeds_processed + run.stats.errors = Len(sources)

\* A cycle ended with a raised task, a task that returned zero and a task
\* that returned a positive count.
C4_Witness ==
    /\ RunComplete
    /\ \E t, u, v \in DOMAIN task :
          /\ task[t].pc = "raised"
          /\ task[u].pc = "returned" /\ task[u].new_articles = 0
          /\ task[v].pc = "returned" /\ task[v].new_articles > 0

\* C5: each task's new_articles is the number of rows it inserted, and the
\* cycle's new_articles is the number of rows the cycle added to the table.
C5_CountIsRowsInserted ==
    RunComplete =>
       /\ \A t \in DOMAIN task : task[t].new_articles = task[t].inserted
       /\ run.stats.new_articles = Len(articles) - run.rows0

\* C6: two wait_if_needed calls for the same host return at least base_delay
\* apart, whether they are issued one after the other or from two worker
\* threads at once.
C6_SameHostSpaced ==
    [][\A t \in DOMAIN task :
         (/\ task[t].pc = "rl_sleep"
          /\ task'[t].pc # "rl_sleep"
          /\ last_request[task[t].url.host] # << >>)
         => now - last_request[task[t].url.host][1] >= delay]_vars

\* C7: a wait_if_needed call for one host sleeps only on account of that
\* host's own timestamp, never longer than that timestamp requires, and a
\* host's timestamp is written only by the call of a thread whose URL is on
\* that host.
C7_HostsIndependent ==
    /\ [](\A t \in DOMAIN task :
            (task[t].pc = "rl_sleep" /\ now < task[t].wake) =>
               LET own == last_request[task[t].url.host]
               IN  /\ own # << >>
                   /\ task[t].wake <= own[1] + delay + (delay \div 2) + HalfSecond)
    /\ [][\A h \in Hosts :
            last_request'[h] # last_request[h] =>
               \E t \in DOMAIN task :
                  /\ task[t].pc = "rl_sleep"
                  /\ task'[t].pc # "rl_sleep"
                  /\ task[t].url.host = h]_vars

\* A call for a host never requested goes through without a wait at the
\* moment another host's request has just been stamped.
C7_Witness ==
    \E t \in DOMAIN task, h \in Hosts :
        /\ task[t].pc = "rl_sleep"
        /\ task[t].wake <= now
        /\ task[t].url.host # h
        /\ last_request[task[t].url.host] = << >>
        /\ last_request[h] = << now >>

\* C8: the sources of a monitor constructed with a feed list are the feeds
\* of that list; the four default sources are used only when no list is
\* given.
C8_SuppliedFeedsAreSources ==
    LET names(fs) == {fs[i].name : i \in DOMAIN fs}
    IN  names(sources) = IF feedsArg = << >>
                         THEN names(DEFAULT_SECURITY_FEEDS)
                         ELSE names(feedsArg[1])

C14_FeedFaultRecorded ==
    /\ [](\A t \in DOMAIN task :
            (/\ task[t].pc \in {"returned", "raised"}
             /\ \/ web[t].entries = << >>
                \/ web[t].status # << >> /\ web[t].status[1] >= 400)
            => /\ task[t].pc = "raised"
               /\ task[t].inserted = 0
               /\ \A r \in DOMAIN articles : articles[r].source_id # t
               /\ sources[t].error_count = 1
               /\ sources[t].last_updated = << >>
               /\ task[t].collected =>
                     run.stats.errors =
                        Cardinality({u \in DOMAIN task :
                            task[u].collected /\ task[u].pc = "raised"}))
    /\ [][\A t \in DOMAIN task :
            (task[t].pc = "parse" /\ task'[t].pc = "raised")
            => /\ sources'[t] = [sources[t] EXCEPT !.error_count = @ + 1]
               /\ \A u \in DOMAIN sources : u # t => sources'[u] = sources[u]
               /\ articles' = articles]_vars

\* A cycle ended in which one source answered 404 and was counted in
\* errors while another source's article was stored.
C14_Witness ==
    /\ RunComplete
    /\ \E t, u \in DOMAIN task :
          /\ task[t].pc = "raised" /\ web[t].status = << 404 >>
          /\ task[u].pc = "returned" /\ task[u].inserted > 0
          /\ run.stats.errors >= 1

\* C15: a storage fault inside a store operation called by a source task
\* reaches the task's caller: the task raises and the run counts its source
\* in errors; the fault is never turned into a normal result.
C15_StorageFaultPropagates ==
    \A t \in DOMAIN task :
       (task[t].storage_fault /\ task[t].pc \in {"returned", "raised"})
       => /\ task[t].pc = "raised"
          /\ task[t].collected => run.stats.errors >= 1

\* C13: update_source_status(id, True) sets that source's last_updated to the
\* time of the call and its error_count to 0; update_source_status(id, False)
\* adds exactly 1 to its error_count and leaves its last_updated alone; the
\* call changes no other field of the row, no other source row and no
\* article row.
C13_StatusUpdateExact ==
    [][\A id \in StatusIds, success \in BOOLEAN :
          StoreUpdateStatus(id, success) =>
             /\ articles' = articles
             /\ DOMAIN sources' = DOMAIN sources
             /\ \A i \in DOMAIN sources : i # id => sources'[i] = sources[i]
             /\ id \in DOMAIN sources =>
                  /\ sources'[id].name = sources[id].name
                  /\ sources'[id].url = sources[id].url
                  /\ sources'[id].type = sources[id].type
                  /\ IF success
                     THEN /\ sources'[id].last_updated = << now >>
                          /\ sources'[id].error_count = 0
                     ELSE /\ sources'[id].last_updated = sources[id].last_updated
                          /\ sources'[id].error_count = sources[id].error_count + 1]_vars

\* A failure was just recorded for source 1, which had succeeded a tick
\* earlier, while source 2 carries a later success and an article is stored.
C13_Witness ==
    /\ reply.op = "update_source_status"
    /\ reply.source_id = 1 /\ ~reply.success
    /\ now = 1
    /\ sources[1].error_count = 1 /\ sources[1].last_updated = << 0 >>
    /\ sources[2].last_updated = << 1 >>
    /\ articles # << >>

\* C19: initializing a store that is already initialized changes nothing: the
\* source rows, with every last_updated and error_count, and the article rows
\* are the same afterwards, and at no time do two source rows carry the same
\* name.
C19_InitIdempotent ==
    /\ [](\A i, j \in DOMAIN sources : sources[i].name = sources[j].name => i = j)
    /\ [][StoreInit => sources' = sources /\ articles' = articles]_vars

\* The store was initialized again while it held an article, a source with a
\* recorded failure and a source with a recorded success.
C19_Witness ==
    /\ reply.op = "init"
    /\ articles # << >>
    /\ \E i \in DOMAIN sources : sources[i].error_count > 0
    /\ \E i \in DOMAIN sources : sources[i].last_updated # << >>

\* C20: the source_id of every article row is the id of a source row, and an
\* add_article call whose source_id names no source row returns False and
\* stores no row.
C20_ArticlesHaveSources ==
    /\ [](\A r \in DOMAIN articles : articles[r].source_id \in DOMAIN sources)
    /\ [][\A c \in StoreArticles :
             (StoreAddArticle(c, now) /\ c.source_id \notin DOMAIN sources)
             => articles' = articles /\ ~reply'.result]_vars

\* add_article was just called for a source id that no source row has, on a
\* store that already holds an article of an existing source.
C20_Witness ==
    /\ reply.op = "add_article"
    /\ reply.source_id \notin DOMAIN sources
    /\ ~reply.result
    /\ articles # << >>

\* C16: search_articles(days=N) returns an article only if its published date
\* is strictly later than the cutoff, the time of the call minus N days; and
\* the date excludes no article published after the cutoff: a search without
\* a query that returns fewer rows than its limit returns every such article.
C16_StrictWindow ==
    reply.op = "search_articles" =>
       LET cutoff == now - reply.days * DayTicks
           found == { reply.result[j].id : j \in DOMAIN reply.result }
       IN  /\ \A i \in found : articles[i].published_date > cutoff
           /\ (reply.query = << >> /\ Len(reply.result) < reply.limit) =>
                 \A i \in DOMAIN articles :
                    articles[i].published_date > cutoff => i \in found

\* A one-day search left out an article published exactly one day before the
\* call and returned one published later.
C16_Witness ==
    /\ reply.op = "search_articles" /\ reply.days = 1 /\ reply.query = << >>
    /\ reply.result # << >>
    /\ \E i \in DOMAIN articles :
          /\ articles[i].published_date = now - DayTicks
          /\ \A j \in DOMAIN reply.result : reply.result[j].id # i

C18_TrendingKeywords ==
    reply.op = "get_trending_keywords" =>
       LET cutoff == now - reply.days * DayTicks
           recent == { i \in DOMAIN articles : articles[i].published_date > cutoff }
           At(i, w) == { m \in DOMAIN articles[i].keywords : articles[i].keywords[m] = w }
           words == UNION { Range(articles[i].keywords) : i \in recent } \ { "," }
           count == [w \in words |->
                       SumOver([i \in recent |-> Cardinality(At(i, w))], recent)]
           found == { reply.result[j][1][1] : j \in DOMAIN reply.result }
       IN  /\ Len(reply.result) = IF Cardinality(words) < reply.limit
                                  THEN Cardinality(words) ELSE reply.limit
           /\ Cardinality(found) = Len(reply.result)
           /\ \A j \in DOMAIN reply.result :
                 /\ Len(reply.result[j][1]) = 1
                 /\ reply.result[j][1][1] \in words
                 /\ reply.result[j][2] = count[reply.result[j][1][1]]
           /\ \A j, k \in DOMAIN reply.result :
                 j < k => reply.result[j][2] >= reply.result[k][2]
           /\ \A w \in words \ found :
                 \A j \in DOMAIN reply.result : count[w] <= reply.result[j][2]

\* The keyword strings "security,exploit" and "security,malware" are inside
\* the window, next to an article without keywords, and the list begins with
\* (security, 2).
C18_Witness ==
    /\ reply.op = "get_trending_keywords"
    /\ Len(articles) = 3
    /\ \A i \in DOMAIN articles : articles[i].published_date > now - reply.days * DayTicks
    /\ \E i \in DOMAIN articles : articles[i].keywords = << "security", ",", "exploit" >>
    /\ \E i \in DOMAIN articles : articles[i].keywords = << "security", ",", "malware" >>
    /\ \E i \in DOMAIN articles : articles[i].keywords = << >>
    /\ Len(reply.result) = 3
    /\ reply.result[1] = << << "security" >>, 2 >>

C21_RowsAppendOnly ==
    [][/\ Len(articles') >= Len(articles)
       /\ \A i \in DOMAIN articles : articles'[i] = articles[i]
       /\ Len(sources') >= Len(sources)
       /\ \A i \in DOMAIN sources :
             /\ sources'[i].name = sources[i].name
             /\ sources'[i].url = sources[i].url
             /\ sources'[i].type = sources[i].type]_vars

\* In the second run a task has offered, and add_article refused, an entry
\* whose URL an earlier run stored with the placeholder of a failed fetch.
C21_Witness ==
    /\ run.count = 2
    /\ \E t \in DOMAIN task :
          /\ task[t].pc = "entry" /\ task[t].idx > 1
          /\ task[t].added = << FALSE >>
          /\ \E i \in DOMAIN articles :
                /\ articles[i].url = task[t].feed.entries[task[t].idx - 1].link[1]
                /\ articles[i].retrieved_date < now
                /\ Placeholder(articles[i].full_content)

\* C22: update_feeds dispatches exactly one _process_feed task per source that
\* get_sources returned: during a run there is one task for every source row,
\* a task that has finished is not run again, every task has finished when
\* update_feeds returns; and at no time are more than max_workers tasks
\* executing.
C22_OneTaskPerSourceBounded ==
    /\ [](Cardinality({t \in DOMAIN task : Running(t)}) <= max_workers)
    /\ [](run.count > 0 => DOMAIN task = DOMAIN sources)
    /\ [](RunComplete => \A t \in DOMAIN task : task[t].pc \in {"returned", "raised"})
    /\ [][\A t \in DOMAIN task :
             (task[t].pc \in {"returned", "raised"} /\ run'.count = run.count)
             => task'[t].pc = task[t].pc]_vars

\* The pool is full: max_workers tasks are executing while a further task
\* waits in the queue.
C22_Witness ==
    /\ Cardinality({t \in DOMAIN task : Running(t)}) = max_workers
    /\ \E t \in DOMAIN task : task[t].pc = "pending"
    /\ \E t \in DOMAIN task : task[t].pc \in {"returned", "raised"}

\* C23: when every wait and every call of every task returns, a started
\* update_feeds returns; and it returns only after every dispatched task has
\* returned or raised and has been counted: feeds_processed + errors is the
\* number of tasks.
C23_UpdateFeedsReturns ==
    /\ (run.pc = "running") ~> (run.pc = "idle")
    /\ [](RunComplete =>
            /\ \A t \in DOMAIN task :
                  task[t].pc \in {"returned", "raised"} /\ task[t].collected
            /\ run.stats.feeds_processed + run.stats.errors = Len(task))

\* update_feeds has returned after tasks that returned and tasks that raised.
C23_Witness ==
    /\ RunComplete
    /\ \E t \in DOMAIN task : task[t].pc = "returned"
    /\ \E t \in DOMAIN task : task[t].pc = "raised"

\* C24: every store operation acquires its own connection, commits when its
\* body succeeded and rolls back when it raised, and closes the connection on
\* every exit path, a failing commit or a failing set-up included: no
\* operation ends with an open connection or an open transaction.
C24_ConnectionReleased ==
    /\ db.left_open = 0
    /\ db.pc = "ended" =>
          /\ db.conn # "open"
          /\ ~db.txn
          /\ db.conn = "closed" => db.ended_by \in {"commit", "rollback"}


\* C25: main returns 0 whenever the command completes, an update run in
\* which some or all sources failed included, and returns 1 exactly when an
\* exception left the monitor's construction or the command.
C25_ExitStatus ==
    reply.op = "main" =>
        /\ reply.exit \in {0, 1}
        /\ (reply.exit = 1) <=> (reply.raised # "none")
        /\ reply.raised = "none" => reply.exit = 0
        /\ (reply.command = "update" /\ reply.raised = "none") =>
               /\ RunComplete
               /\ reply.stats = run.stats
               /\ reply.stats.feeds_processed + reply.stats.errors = Len(task)

\* The update command returned after a run in which every source failed
C25_Witness ==
    /\ reply.op = "main"
    /\ reply.command = "update"
    /\ reply.exit = 0
    /\ reply.stats.errors = Len(task)
    /\ \A t \in DOMAIN task : task[t].pc = "raised"


\* C28: a fault while handling one feed entry (an entry without a title or
\* a link) is swallowed at the entry: the task raises only when its feed
\* could not be parsed, the well-formed in-window entries after the faulty
\* one are stored, and only sources whose feed failed are counted in errors.
C28_EntryFaultSwallowed ==
    /\ \A t \in DOMAIN task :
          task[t].pc = "raised" => ParseFeedRaises(web[t])
    /\ \A t \in DOMAIN task :
          (task[t].pc \in {"returned", "raised"} /\ ~ParseFeedRaises(web[t])) =>
              \A i \in DOMAIN web[t].entries :
                 LET e == web[t].entries[i] IN
                 (InWindow(e, task[t].cutoff) /\ e.title # None /\ e.link # None)
                     => Stored(e.link[1])
    /\ RunComplete =>
          run.stats.errors =
              Cardinality({t \in DOMAIN task : ParseFeedRaises(web[t])})


\* C27: an attempt applies exactly one status update to its source, a
\* success if the task returns and a failure if it raises: after the first
\* run a source whose task returned has last_updated set within the run and
\* error_count 0, and a source whose task raised has error_count 1 and a
\* last_updated that was never set.
C27_OneStatusUpdatePerAttempt ==
    \A t \in DOMAIN task :
       /\ task[t].pc = "returned" =>
             /\ sources[t].last_updated # << >>
             /\ sources[t].last_updated[1] >= run.start
             /\ sources[t].error_count = 0
       /\ task[t].pc = "raised" =>
             /\ sources[t].last_updated = << >>
             /\ sources[t].error_count = 1


\* C26: error_count is the number of consecutive failed attempts since the
\* source's last success.  Cycle by cycle: with the counts read just before
\* a cycle, when that cycle's update_feeds has returned a source whose task
\* raised has one error more than was read, and a source whose task
\* returned has none.
C26_ConsecutiveFailures ==
    (/\ RunComplete
     /\ reply.op = "read_error_counts"
     /\ reply.runs = run.count - 1) =>
        \A t \in DOMAIN task :
           sources[t].error_count =
               IF task[t].pc = "raised" THEN reply.error_count[t] + 1 ELSE 0


\* C29: when a task takes up an entry of its feed, it goes on to the rate
\* limiter and the fetch of the entry's link, and from there to add_article,
\* exactly if the entry's published date is not earlier than the cutoff;
\* for an older entry it only moves to the next entry: no wait, no fetch,
\* no change to the store.
C29_FetchedIffInWindow ==
    [][\A t \in DOMAIN task :
          (/\ task[t].pc = "entry"
           /\ task[t].idx <= Len(task[t].feed.entries)
           /\ task'[t] # task[t]) =>
              LET entry == task[t].feed.entries[task[t].idx] IN
              IF InWindow(entry, task[t].cutoff)
              THEN /\ entry.link # << >>
                   /\ task'[t].pc = "rl_check"
                   /\ task'[t].after = "fetch"
                   /\ task'[t].url = entry.link[1]
                   /\ task'[t].entry.link = entry.link[1]
              ELSE /\ task'[t] = [task[t] EXCEPT !.idx = @ + 1]
                   /\ articles' = articles
                   /\ sources' = sources
                   /\ last_request' = last_request]_vars


\* The count of a token in a text: the times it occurs as a word, plus 5
\* for each time it occurs as a CVE identifier.
C30_Count(tok, text) ==
    Cardinality({i \in DOMAIN text : tok \in Range(WordsIn(Lower(text[i])))})
    + 5 * Cardinality({i \in DOMAIN text : IsSecurityId(text[i]) /\ text[i] = tok})

C30_FirstWord(tok, text) ==
    CHOOSE i \in DOMAIN text :
       /\ tok \in Range(WordsIn(Lower(text[i])))
       /\ \A j \in 1..(i - 1) : tok \notin Range(WordsIn(Lower(text[j])))

C30_FirstSeen(tok, text) ==
    CHOOSE i \in DOMAIN text :
       /\ tok \in Range(WordsIn(Lower(text[i]))) \/ text[i] = tok
       /\ \A j \in 1..(i - 1) :
             ~(tok \in Range(WordsIn(Lower(text[j]))) \/ text[j] = tok)

\* C30 (as claimed): at most max distinct tokens, none a stopword, by
\* descending count, and tokens with equal counts in the order in which
\* they were first encountered in the text.
C30_KeywordsRanked ==
    reply.op = "_extract_keywords" =>
        LET k == reply.keywords
            text == reply.text
        IN  /\ Len(k) <= reply.max_keywords
            /\ \A i, j \in DOMAIN k : i # j => k[i] # k[j]
            /\ \A i \in DOMAIN k : k[i] \notin stopwords
            /\ \A i, j \in DOMAIN k : i < j =>
                  /\ C30_Count(k[i], text) >= C30_Count(k[j], text)
                  /\ C30_Count(k[i], text) = C30_Count(k[j], text) =>
                        C30_FirstSeen(k[i], text) <= C30_FirstSeen(k[j], text)

\* C30 (amended): for max >= 0, at most max distinct tokens, none a
\* stopword, each occurring in the text, by descending count; tokens with
\* equal counts appear in the order in which they entered the counter: the
\* words in the order first encountered in the text, and after all the
\* words the CVE identifiers in the order first encountered.
C30_KeywordsRankedByInsertion ==
    (reply.op = "_extract_keywords" /\ reply.max_keywords >= 0) =>
        LET k == reply.keywords
            text == reply.text
        IN  /\ Len(k) <= reply.max_keywords
            /\ \A i, j \in DOMAIN k : i # j => k[i] # k[j]
            /\ \A i \in DOMAIN k :
                  k[i] \notin stopwords /\ C30_Count(k[i], text) > 0
            /\ \A i, j \in DOMAIN k : i < j =>
                  /\ C30_Count(k[i], text) >= C30_Count(k[j], text)
                  /\ C30_Count(k[i], text) = C30_Count(k[j], text) =>
                        IF IsSecurityId(k[i])
                        THEN /\ IsSecurityId(k[j])
                             /\ C30_FirstSeen(k[i], text) < C30_FirstSeen(k[j], text)
                        ELSE \/ IsSecurityId(k[j])
                             \/ C30_FirstWord(k[i], text) < C30_FirstWord(k[j], text)

\* A text that opens with a CVE identifier and goes on with five
\* occurrences of one word: both count 5 and the word is returned first.
C30_Witness ==
    /\ reply.op = "_extract_keywords"
    /\ reply.text # << >>
    /\ IsSecurityId(reply.text[1])
    /\ Len(reply.keywords) >= 2
    /\ reply.keywords[1] = "exploit"
    /\ reply.keywords[2] = reply.text[1]
    /\ C30_Count("exploit", reply.text) = C30_Count(reply.text[1], reply.text)


\* C31: every in-window entry a task takes up, stored URL or not, goes to
\* the rate limiter and then to one fetch of its link; add_article's SELECT
\* is reached only from that fetch, and once add_article has answered the
\* task moves to the next entry.
C31_FetchBeforeExistenceCheck ==
    [][\A t \in DOMAIN task :
          /\ (/\ task[t].pc = "entry"
              /\ task[t].idx <= Len(task[t].feed.entries)
              /\ InWindow(task[t].feed.entries[task[t].idx], task[t].cutoff)
              /\ task'[t] # task[t]) =>
                 /\ task'[t].pc = "rl_check"
                 /\ task'[t].after = "fetch"
                 /\ << task'[t].url >> = task[t].feed.entries[task[t].idx].link
          /\ (task'[t].pc = "fetch" /\ task[t].pc # "fetch") =>
                 /\ task[t].pc = "rl_sleep" /\ task[t].after = "fetch"
                 /\ last_request'[Domain(task[t].url)] = << now >>
          /\ (task'[t].pc = "add_select" /\ task[t].pc # "add_select") =>
                 /\ task[t].pc = "fetch"
                 /\ task'[t].idx = task[t].idx
                 /\ articles' = articles
          /\ (/\ task[t].pc \in {"add_select", "add_insert"}
              /\ task'[t].pc \notin {"add_select", "add_insert"}) =>
                 /\ task'[t].pc = "entry"
                 /\ task'[t].idx = task[t].idx + 1]_vars


\* C32: a body that begins with "Content extraction failed" comes with an
\* empty keyword list: no stored article with such a body has keywords, and
\* every trending keyword is a keyword of a stored article whose body is
\* not a failure placeholder.
C32_PlaceholderHasNoKeywords ==
    LET Failed(content) ==
            /\ Len(content) >= Len(FailedPrefix)
            /\ SubSeq(content, 1, Len(FailedPrefix)) = FailedPrefix
    IN  /\ \A i \in DOMAIN articles :
              Failed(articles[i].full_content) => articles[i].keywords = << >>
        /\ reply.op = "get_trending_keywords" =>
              \A j \in DOMAIN reply.result :
                 \E i \in DOMAIN articles :
                    /\ ~Failed(articles[i].full_content)
                    /\ articles[i].keywords # << >>
                    /\ reply.result[j][1] \in Range(Split(articles[i].keywords))

====
